---- MODULE Spec2Model ----
(***************************************************************************)
(* Conway's Game of Life on a fixed W x H board with clamped edges         *)
(* (src/main.rs).  A Board<W, H> owns `fields: Vec<bool>` in row-major     *)
(* order.  A board value is modelled as a sequence of BOOLEAN: the element *)
(* with 0-based index n of the Vec is element n + 1 of the sequence.  The  *)
(* const generic parameters W and H are state that never changes.          *)
(***************************************************************************)
EXTENDS Integers, Sequences, FiniteSets, TLC

VARIABLES
    W,          \* const generic W of Board<W, H>
    H,          \* const generic H of Board<W, H>
    fields,     \* main's `board`: the backing Vec<bool>
    panicked,   \* an index went out of range: the thread panicked
    op,         \* history: the last operation and its arguments
    prev,       \* history: the board the last operation was applied to
    receiver,   \* history: the receiver of the last operation after the call
    written,    \* history: the cells the last in-place edit wrote, in order
    origin,     \* history: the constructor the board comes from
    gen,        \* history: generations stepped since `origin` was set
    edits,      \* history: in-place edits since `origin` was set
    closure,    \* history: the closure (`method`) of the last call of generate
    calls,      \* history: the (x, y) the last generate passed to it, in order
    stamp,      \* history: the grid of the last call of draw
    pause,        \* main's `pause`
    update_rate,  \* main's `update_rate`: a u32, as two 16-bit halves
    last_update,  \* main's `last_update`, in nanoseconds since the start
    current_time, \* `current_time` of the loop iteration that is running
    last_x,       \* main's `last_x`
    last_y,       \* main's `last_y`
    running,      \* the loop 'running has not been left
    ev,           \* history: the last event handled, or the last tick
    before,       \* history: main's variables before `ev` was handled
    mouse,        \* history: the cell of the last mouse event, if there was one
    polled,       \* history: events handled in the running iteration
    events,       \* history: events handled since the start
    iters         \* history: loop iterations completed

\* the board and its history
board == <<fields, panicked, op, prev, receiver, written, origin, gen, edits,
           closure, calls, stamp>>

\* the locals of main beside the board, and their history
loop == <<pause, update_rate, last_update, current_time, last_x, last_y, running,
          ev, before, mouse, polled, events, iters>>

vars == <<W, H, board, loop>>

(***************************************************************************)
(* Bounds of the exploration.  Spec explores every board of up to MaxW x    *)
(* MaxH (at most MaxCells) cells, SpecLine boards of up to MaxLineW x       *)
(* MaxLineH (at most MaxLineCells) cells.  SpecStamp explores one board of *)
(* StampW x StampH cells, the smallest that holds the glider gun stamped   *)
(* at (10, 10) and has 20 rows (main uses WIDTH = 160, HEIGHT = 90).  At   *)
(* most MaxGen steps and MaxEdits edits are taken after a constructor.     *)
(* SpecKeys and SpecMouse run main's loop on a board of MainW x MainH      *)
(* cells: SpecKeys for at most MaxEvents events and MaxIters iterations,   *)
(* SpecMouse for at most MaxMouse events.                                  *)
(***************************************************************************)
MaxW == 3
MaxH == 3
MaxCells == 9
MaxGen == 4
MaxEdits == 1
MaxLineW == 4
MaxLineH == 2
MaxLineCells == 8
StampW == 46
StampH == 20
MainW == 3
MainH == 2
MaxEvents == 3
MaxMouse == 2
MaxIters == 2

(***************************************************************************)
(* Indexing: board[y][x] is fields[y * W .. (y + 1) * W][x].               *)
(***************************************************************************)
InRange(b, x, y, w) == x >= 0 /\ y >= 0 /\ x < w /\ (y + 1) * w <= Len(b)

At(b, x, y, w) == b[y * w + x + 1]

SetAt(b, x, y, w, val) == [b EXCEPT ![y * w + x + 1] = val]

Index(b, index, w) == SubSeq(b, index * w + 1, (index + 1) * w)

rows(b, w, h) == [y \in 0..(h - 1) |-> Index(b, y, w)]

(***************************************************************************)
(* Constructors.                                                           *)
(***************************************************************************)
new(f) == f

\* mutant: vec![true; H * W]
ClearAlive(w, h) == new([n \in 1..(h * w) |-> TRUE])

\* mutant: vec![false; H * H]
ClearSquare(w, h) == new([n \in 1..(h * h) |-> FALSE])

clear(w, h) == new([n \in 1..(h * w) |-> FALSE])

\* mutant: the cells are filled from the last index down
GenerateReversed(method, w, h) ==
    LET size == h * w
    IN  new([i \in 1..size |->
                LET n == size - i
                    x == n % w
                    y == n \div w
                IN  method[x, y]])

\* method is the closure, a function of (x, y)
generate(method, w, h) ==
    LET size == h * w
    IN  new([i \in 1..size |->
                LET n == i - 1
                    x == n % w
                    y == n \div w
                IN  method[x, y]])

\* The arguments of the calls of method that generate makes, in the order of
\* its map over n = 0..size.
GenerateCalls(w, h) ==
    LET size == h * w
    IN  [i \in 1..size |->
            LET n == i - 1
                x == n % w
                y == n \div w
            IN  <<x, y>>]

(***************************************************************************)
(* Neighbour counting with a window clamped at the edges.                  *)
(***************************************************************************)
\* mutant: the window wraps around the edges
CandidatesTorus(x, y, w, h) ==
    {<<(x + d[1]) % w, (y + d[2]) % h>> : d \in (-1..1) \X (-1..1)} \ {<<x, y>>}

\* mutant: the cell itself is not skipped
CandidatesWithSelf(x, y, w, h) ==
    LET x_low  == IF x = 0 THEN 0 ELSE x - 1
        x_high == IF x = w - 1 THEN w - 1 ELSE x + 1
        y_low  == IF y = 0 THEN 0 ELSE y - 1
        y_high == IF y = h - 1 THEN h - 1 ELSE y + 1
    IN  (x_low..x_high) \X (y_low..y_high)

Candidates(x, y, w, h) ==
    LET x_low  == IF x = 0 THEN 0 ELSE x - 1
        x_high == IF x = w - 1 THEN w - 1 ELSE x + 1
        y_low  == IF y = 0 THEN 0 ELSE y - 1
        y_high == IF y = h - 1 THEN h - 1 ELSE y + 1
    IN  {c \in (x_low..x_high) \X (y_low..y_high) : c # <<x, y>>}

neighbours(b, x, y, w, h) ==
    Cardinality({c \in Candidates(x, y, w, h) : At(b, c[1], c[2], w)})

(***************************************************************************)
(* The step function.                                                      *)
(***************************************************************************)
\* mutant: the arm (true, 2) => true is missing
RuleBirthOnly(val, n) == n = 3

rule(val, n) ==
    IF val /\ n = 2 THEN TRUE
    ELSE IF n = 3 THEN TRUE
    ELSE FALSE

RECURSIVE NextInPlaceFrom(_, _, _, _)
NextInPlaceFrom(b, i, w, h) ==
    IF i > h * w THEN b
    ELSE LET n == i - 1
             x == n % w
             y == n \div w
         IN  NextInPlaceFrom(
                 [b EXCEPT ![i] = rule(At(b, x, y, w), neighbours(b, x, y, w, h))],
                 i + 1, w, h)

\* mutant: the cells are updated in place, so later cells count neighbours
\* on the partially updated board
NextInPlace(b, w, h) == NextInPlaceFrom(b, 1, w, h)

\* the closure next passes to generate
NextMethod(b, w, h) ==
    [x \in 0..(w - 1), y \in 0..(h - 1) |->
        rule(At(b, x, y, w), neighbours(b, x, y, w, h))]

next(b, w, h) == generate(NextMethod(b, w, h), w, h)

\* mutant: next(&mut self) that stores the new generation in the receiver
NextReceiverInPlace(b, w, h) == next(b, w, h)

\* next takes &self: the receiver is the same board after the call.
NextReceiver(b, w, h) == b

(***************************************************************************)
(* Stamped patterns.                                                       *)
(***************************************************************************)
GLIDER_GRID ==
    << <<" "," ","#">>,
       <<"#"," ","#">>,
       <<" ","#","#">> >>

GLIDER_GUN_GRID ==
    << <<" "," "," "," "," "," "," "," "," "," "," "," "," "," "," "," "," "," "," "," "," "," "," "," ","#"," "," "," "," "," "," "," "," "," "," "," ">>,
       <<" "," "," "," "," "," "," "," "," "," "," "," "," "," "," "," "," "," "," "," "," "," ","#"," ","#"," "," "," "," "," "," "," "," "," "," "," ">>,
       <<" "," "," "," "," "," "," "," "," "," "," "," ","#","#"," "," "," "," "," "," ","#","#"," "," "," "," "," "," "," "," "," "," "," "," ","#","#">>,
       <<" "," "," "," "," "," "," "," "," "," "," ","#"," "," "," ","#"," "," "," "," ","#","#"," "," "," "," "," "," "," "," "," "," "," "," ","#","#">>,
       <<"#","#"," "," "," "," "," "," "," "," ","#"," "," "," "," "," ","#"," "," "," ","#","#"," "," "," "," "," "," "," "," "," "," "," "," "," "," ">>,
       <<"#","#"," "," "," "," "," "," "," "," ","#"," "," "," ","#"," ","#","#"," "," "," "," ","#"," ","#"," "," "," "," "," "," "," "," "," "," "," ">>,
       <<" "," "," "," "," "," "," "," "," "," ","#"," "," "," "," "," ","#"," "," "," "," "," "," "," ","#"," "," "," "," "," "," "," "," "," "," "," ">>,
       <<" "," "," "," "," "," "," "," "," "," "," ","#"," "," "," ","#"," "," "," "," "," "," "," "," "," "," "," "," "," "," "," "," "," "," "," "," ">>,
       <<" "," "," "," "," "," "," "," "," "," "," "," ","#","#"," "," "," "," "," "," "," "," "," "," "," "," "," "," "," "," "," "," "," "," "," "," ">> >>

\* The inner loop of draw over one row of the grid: character x of the row
\* is written to cell x_offset + x of board row by.
DrawRow(b, row, x_offset, by, w) ==
    [i \in 1..Len(b) |->
        LET x == (i - 1) - by * w - x_offset
        IN  IF 0 <= x /\ x < Len(row) THEN row[x + 1] = "#" ELSE b[i]]

RECURSIVE DrawRows(_, _, _, _, _, _)
\* The outer loop of draw: rows y, y + 1, ... of the grid.
DrawRows(b, grid, y, x_offset, y_offset, w) ==
    IF y >= Len(grid) THEN b
    ELSE DrawRows(DrawRow(b, grid[y + 1], x_offset, y_offset + y, w),
                  grid, y + 1, x_offset, y_offset, w)

\* mutant: the columns are counted from 1
DrawOffByOne(b, x_offset, y_offset, grid, w) ==
    DrawRows(b, grid, 0, x_offset + 1, y_offset, w)

RECURSIVE DrawOverlayRows(_, _, _, _, _, _)
\* mutant: a space leaves the cell under it as it was
DrawOverlayRows(b, grid, y, x_offset, y_offset, w) ==
    IF y >= Len(grid) THEN b
    ELSE DrawOverlayRows(
             [i \in 1..Len(b) |->
                 LET x == (i - 1) - (y_offset + y) * w - x_offset
                 IN  IF 0 <= x /\ x < Len(grid[y + 1])
                     THEN (grid[y + 1][x + 1] = "#" \/ b[i])
                     ELSE b[i]],
             grid, y + 1, x_offset, y_offset, w)

DrawOverlay(b, x_offset, y_offset, grid, w) ==
    DrawOverlayRows(b, grid, 0, x_offset, y_offset, w)

draw(b, x_offset, y_offset, grid, w) == DrawRows(b, grid, 0, x_offset, y_offset, w)

\* Every index draw uses is in range (otherwise the slice index panics).
DrawFits(b, x_offset, y_offset, grid, w) ==
    \A y \in 0..(Len(grid) - 1) : \A x \in 0..(Len(grid[y + 1]) - 1) :
        InRange(b, x_offset + x, y_offset + y, w)

StampOffset == 10

glider(w, h) == draw(clear(w, h), StampOffset, StampOffset, GLIDER_GRID, w)

glider_gun(w, h) == draw(clear(w, h), StampOffset, StampOffset, GLIDER_GUN_GRID, w)

(***************************************************************************)
(* f32 arithmetic as line uses it.  A finite value is (-1)^neg * m / 2^k   *)
(* with m, k >= 0; results are rounded to F32Digits significant bits,      *)
(* ties to even.                                                           *)
(***************************************************************************)
F32Digits == 24

Abs(n) == IF n < 0 THEN -n ELSE n

Max(a, b) == IF a >= b THEN a ELSE b

F32Nan == [nan |-> TRUE, neg |-> FALSE, m |-> 0, k |-> 0]

F32Val(neg, m, k) == [nan |-> FALSE, neg |-> neg, m |-> m, k |-> k]

\* n as f32, exact for |n| < 2^F32Digits
F32OfInt(n) == F32Val(n < 0, Abs(n), 0)

\* p / q rounded to the nearest integer, ties to even
Rne(p, q) ==
    LET f == p \div q
        r == p % q
    IN  IF 2 * r > q \/ (2 * r = q /\ f % 2 = 1) THEN f + 1 ELSE f

RECURSIVE ScaleUp(_, _, _)
\* the least k' >= k with p * 2^k' >= q * 2^(F32Digits - 1)
ScaleUp(p, q, k) ==
    IF p * 2^k >= q * 2^(F32Digits - 1) THEN k ELSE ScaleUp(p, q, k + 1)

RECURSIVE ScaleDown(_, _)
\* the least s' >= s with p < 2^(F32Digits + s')
ScaleDown(p, s) ==
    IF p < 2^(F32Digits + s) THEN s ELSE ScaleDown(p, s + 1)

\* a as f32 / b as f32 for integers with |a| <= b: 0.0 / 0.0 is NaN
F32Div(a, b) ==
    IF b = 0 THEN F32Nan
    ELSE IF a = 0 THEN F32Val(FALSE, 0, 0)
    ELSE LET k == ScaleUp(Abs(a), b, 0)
         IN  F32Val(a < 0, Rne(Abs(a) * 2^k, b), k)

\* f * (i as f32) for an integer i >= 0: NaN * 0.0 is NaN
F32MulInt(f, i) ==
    IF f.nan THEN F32Nan
    ELSE IF f.m = 0 \/ i = 0 THEN F32Val(f.neg, 0, 0)
    ELSE LET p == f.m * i
             s == ScaleDown(p, 0)
         IN  IF s <= f.k THEN F32Val(f.neg, Rne(p, 2^s), f.k - s)
             ELSE F32Val(f.neg, Rne(p, 2^s) * 2^(s - f.k), 0)

\* f32::round: to the nearest integer, ties away from zero
F32Round(f) ==
    IF f.nan THEN F32Nan
    ELSE IF f.k = 0 THEN f
    ELSE F32Val(f.neg, (f.m + 2^(f.k - 1)) \div 2^f.k, 0)

\* f + g for integer-valued f and g (exact below 2^F32Digits)
F32Add(f, g) ==
    IF f.nan \/ g.nan THEN F32Nan
    ELSE F32OfInt((IF f.neg THEN -f.m ELSE f.m) + (IF g.neg THEN -g.m ELSE g.m))

\* `as usize`: saturating, NaN is 0, the fraction is dropped
F32ToUsize(f) ==
    IF f.nan \/ f.neg THEN 0 ELSE f.m \div 2^f.k

(***************************************************************************)
(* Interactive edits.                                                      *)
(***************************************************************************)
\* mutant: the loop is 0..md, without the last step
LinePathExclusive(x1, y1, x2, y2) ==
    LET xd == x2 - x1
        yd == y2 - y1
        md == Max(Abs(xd), Abs(yd))
        xf == F32Div(xd, md)
        yf == F32Div(yd, md)
    IN  [j \in 1..md |->
            LET i == j - 1
                x == F32ToUsize(F32Add(F32OfInt(x1), F32Round(F32MulInt(xf, i))))
                y == F32ToUsize(F32Add(F32OfInt(y1), F32Round(F32MulInt(yf, i))))
            IN  <<x, y>>]

\* The cells line writes, in the order of its loop index i = 0..=md.
LinePath(x1, y1, x2, y2) ==
    LET xd == x2 - x1
        yd == y2 - y1
        md == Max(Abs(xd), Abs(yd))
        xf == F32Div(xd, md)
        yf == F32Div(yd, md)
    IN  [j \in 1..(md + 1) |->
            LET i == j - 1
                x == F32ToUsize(F32Add(F32OfInt(x1), F32Round(F32MulInt(xf, i))))
                y == F32ToUsize(F32Add(F32OfInt(y1), F32Round(F32MulInt(yf, i))))
            IN  <<x, y>>]

RECURSIVE WriteAll(_, _, _, _, _)
\* the writes self[y][x] = val of cells path[i], path[i + 1], ...
WriteAll(b, path, i, val, w) ==
    IF i > Len(path) THEN b
    ELSE WriteAll(SetAt(b, path[i][1], path[i][2], w, val), path, i + 1, val, w)

line(b, x1, y1, x2, y2, val, w) == WriteAll(b, LinePath(x1, y1, x2, y2), 1, val, w)

\* Every index line uses is in range (otherwise the slice index panics).
LineFits(b, x1, y1, x2, y2, w) ==
    LET path == LinePath(x1, y1, x2, y2)
    IN  \A i \in 1..Len(path) : InRange(b, path[i][1], path[i][2], w)

(***************************************************************************)
(* The closures the generate-based generators pass to generate.  random    *)
(* flips a coin per cell: any predicate.  perlin, billow and worley        *)
(* threshold a seeded noise field of an external crate: a sample of        *)
(* predicates stands for the seeds.                                        *)
(***************************************************************************)
\* the outcomes of the coin flips of random's closure
RandomMethods(w, h) == [(0..(w - 1)) \X (0..(h - 1)) -> BOOLEAN]

random(w, h) == {generate(f, w, h) : f \in RandomMethods(w, h)}

NoiseSeeds == {"dead", "alive", "checker"}

noise(seed, w, h) ==
    [x \in 0..(w - 1), y \in 0..(h - 1) |->
        CASE seed = "dead"    -> FALSE
          [] seed = "alive"   -> TRUE
          [] seed = "checker" -> (x + y) % 2 = 0]

(***************************************************************************)
(* History records.                                                        *)
(***************************************************************************)
Op(tag, x1, y1, x2, y2, val) ==
    [tag |-> tag, x1 |-> x1, y1 |-> y1, x2 |-> x2, y2 |-> y2, val |-> val]

Ctor(tag) == Op(tag, 0, 0, 0, 0, FALSE)

\* The operation called generate with closure m.
Generated(m) ==
    /\ closure' = m
    /\ calls' = GenerateCalls(W, H)

\* The operation did not call generate.
NoGenerate ==
    /\ closure' = <<>>
    /\ calls' = <<>>

\* A constructor replaced the board by b.
Constructed(tag, b) ==
    /\ fields' = b
    /\ op' = Ctor(tag)
    /\ prev' = <<>>
    /\ receiver' = <<>>
    /\ written' = <<>>
    /\ origin' = tag
    /\ gen' = 0
    /\ edits' = 0
    /\ UNCHANGED <<W, H, panicked>>

Panic(tag) ==
    /\ panicked' = TRUE
    /\ op' = Ctor(tag)
    /\ UNCHANGED <<W, H, fields, prev, receiver, written, origin, gen, edits,
                   closure, calls, stamp>>

\* board = Board::clear()
Cleared ==
    /\ Constructed("clear", clear(W, H))
    /\ NoGenerate
    /\ stamp' = <<>>

\* board = Board::random()
Randomized(f) ==
    /\ Constructed("random", generate(f, W, H))
    /\ Generated(f)
    /\ stamp' = <<>>

\* board = Board::perlin(), Board::billow(), Board::worley()
Noised(seed) ==
    /\ Constructed("noise", generate(noise(seed, W, H), W, H))
    /\ Generated(noise(seed, W, H))
    /\ stamp' = <<>>

\* board = Board::glider()
GliderStamped ==
    IF DrawFits(clear(W, H), StampOffset, StampOffset, GLIDER_GRID, W)
    THEN Constructed("glider", glider(W, H)) /\ NoGenerate /\ stamp' = GLIDER_GRID
    ELSE Panic("glider")

\* board = Board::glider_gun()
GliderGunStamped ==
    IF DrawFits(clear(W, H), StampOffset, StampOffset, GLIDER_GUN_GRID, W)
    THEN Constructed("glider_gun", glider_gun(W, H)) /\ NoGenerate
         /\ stamp' = GLIDER_GUN_GRID
    ELSE Panic("glider_gun")

\* board = board.next()
Advanced ==
    /\ fields' = next(fields, W, H)
    /\ op' = Ctor("next")
    /\ prev' = fields
    /\ receiver' = NextReceiver(fields, W, H)
    /\ written' = <<>>
    /\ gen' = gen + 1
    /\ Generated(NextMethod(fields, W, H))
    /\ stamp' = <<>>
    /\ UNCHANGED <<W, H, panicked, origin, edits>>

\* board[y][x] = val
CellSet(x, y, val) ==
    IF InRange(fields, x, y, W)
    THEN /\ fields' = SetAt(fields, x, y, W, val)
         /\ op' = Op("set", x, y, x, y, val)
         /\ prev' = fields
         /\ receiver' = fields'
         /\ written' = << <<x, y>> >>
         /\ edits' = edits + 1
         /\ NoGenerate
         /\ stamp' = <<>>
         /\ UNCHANGED <<W, H, panicked, origin, gen>>
    ELSE Panic("set")

\* board.line(x1, y1, x2, y2, val)
LineDrawn(x1, y1, x2, y2, val) ==
    IF LineFits(fields, x1, y1, x2, y2, W)
    THEN /\ fields' = line(fields, x1, y1, x2, y2, val, W)
         /\ op' = Op("line", x1, y1, x2, y2, val)
         /\ prev' = fields
         /\ receiver' = fields'
         /\ written' = LinePath(x1, y1, x2, y2)
         /\ edits' = edits + 1
         /\ NoGenerate
         /\ stamp' = <<>>
         /\ UNCHANGED <<W, H, panicked, origin, gen>>
    ELSE Panic("line")

(***************************************************************************)
(* The operations on main's board, one at a time.                          *)
(***************************************************************************)
\* Keycode::C
Clear ==
    /\ ~panicked
    /\ Cleared
    /\ UNCHANGED loop

\* Keycode::P, Keycode::B, Keycode::W
Noise(seed) ==
    /\ ~panicked
    /\ Noised(seed)
    /\ UNCHANGED loop

\* Keycode::L
Glider ==
    /\ ~panicked
    /\ GliderStamped
    /\ UNCHANGED loop

\* Keycode::G
GliderGun ==
    /\ ~panicked
    /\ GliderGunStamped
    /\ UNCHANGED loop

\* board = board.next()
Step ==
    /\ ~panicked
    /\ gen < MaxGen
    /\ Advanced
    /\ UNCHANGED loop

\* board[y][x] = val
Set(x, y, val) ==
    /\ ~panicked
    /\ edits < MaxEdits
    /\ CellSet(x, y, val)
    /\ UNCHANGED loop

\* board.line(x1, y1, x2, y2, val)
Line(x1, y1, x2, y2, val) ==
    /\ ~panicked
    /\ edits < MaxEdits
    /\ LineDrawn(x1, y1, x2, y2, val)
    /\ UNCHANGED loop

\* board.draw(x_offset, y_offset, grid)
Draw(x_offset, y_offset, grid) ==
    /\ ~panicked
    /\ edits < MaxEdits
    /\ UNCHANGED loop
    /\ IF DrawFits(fields, x_offset, y_offset, grid, W)
       THEN /\ fields' = draw(fields, x_offset, y_offset, grid, W)
            /\ op' = Op("draw", x_offset, y_offset, x_offset, y_offset, FALSE)
            /\ prev' = fields
            /\ receiver' = fields'
            /\ written' = <<>>
            /\ edits' = edits + 1
            /\ NoGenerate
            /\ stamp' = grid
            /\ UNCHANGED <<W, H, panicked, origin, gen>>
       ELSE Panic("draw")

(***************************************************************************)
(* main's loop.  One iteration reads the clock, handles the events that    *)
(* are queued, lets the board advance if the update is due, renders and    *)
(* sleeps.  The model is always inside the event loop of an iteration: an  *)
(* event action handles one event, Tick is the rest of the iteration and   *)
(* the top of the next one.  Rendering reads the board only and is left    *)
(* out; the clock is taken not to run backwards.                           *)
(***************************************************************************)
DEFAULT_VIRT_FPS == 30

NANOS_PER_SEC == 1000000000

\* the window is created 1600 x 900, for WIDTH = 160 and HEIGHT = 90
WindowScale == 10

\* canvas.output_size()
output_size == <<W * WindowScale, H * WindowScale>>

tile_width == output_size[1] \div W

tile_height == output_size[2] \div H

\* A u32 n as the halves [hi, lo] with n = hi * 2^16 + lo.
U32Half == 65536

U32(n) == [hi |-> n \div U32Half, lo |-> n % U32Half]

U32Max == [hi |-> U32Half - 1, lo |-> U32Half - 1]

\* n + 1 for n < u32::MAX
U32Succ(n) ==
    IF n.lo < U32Half - 1 THEN [n EXCEPT !.lo = @ + 1]
    ELSE [hi |-> n.hi + 1, lo |-> 0]

\* n - 1 for n > 0
U32Pred(n) ==
    IF n.lo > 0 THEN [n EXCEPT !.lo = @ - 1]
    ELSE [hi |-> n.hi - 1, lo |-> U32Half - 1]

\* n > 1
U32AboveOne(n) == n.hi > 0 \/ n.lo > 1

\* 1_000_000_000 / update_rate as u128, for update_rate > 0: a rate of
\* 2^31 or more is above 1_000_000_000
NanosPerUpdate(rate) ==
    IF rate.hi >= U32Half \div 2 THEN 0
    ELSE NANOS_PER_SEC \div (rate.hi * U32Half + rate.lo)

\* mutant: the update is due as soon as the interval has passed
ShouldUpdateAtInterval(paused, measured_nanos, nanos) ==
    ~paused /\ measured_nanos >= nanos

\* mutant: the update does not look at pause
ShouldUpdatePaused(paused, measured_nanos, nanos) ==
    measured_nanos > nanos

\* if !pause { ... if measured_nanos > nanos { ... } }
ShouldUpdate(paused, measured_nanos, nanos) ==
    ~paused /\ measured_nanos > nanos

\* x as usize / tile_width as usize, for x >= 0
CellOf(pixel, tile) == pixel \div tile

NoEvent ==
    [kind |-> "none", code |-> "", x |-> 0, y |-> 0,
     left |-> FALSE, right |-> FALSE, d |-> 0]

KeyEvent(code) == [NoEvent EXCEPT !.kind = "key", !.code = code]

DownEvent(x, y, btn) ==
    [NoEvent EXCEPT !.kind = "down", !.code = btn, !.x = x, !.y = y,
                    !.left = (btn = "Left"), !.right = (btn = "Right")]

MotionEvent(x, y, left, right) ==
    [NoEvent EXCEPT !.kind = "motion", !.x = x, !.y = y,
                    !.left = left, !.right = right]

TickEvent(d) == [NoEvent EXCEPT !.kind = "tick", !.d = d]

Snapshot ==
    [fields |-> fields, gen |-> gen, pause |-> pause, update_rate |-> update_rate,
     last_update |-> last_update, current_time |-> current_time,
     last_x |-> last_x, last_y |-> last_y, mouse |-> mouse, polled |-> polled]

\* The event loop handles event e (of at most max events).
Polled(e, max) ==
    /\ ~panicked
    /\ running
    /\ events < max
    /\ ev' = e
    /\ before' = Snapshot
    /\ polled' = polled + 1
    /\ events' = events + 1
    /\ UNCHANGED <<current_time, last_update, iters>>

\* Event::Quit
Quit ==
    /\ Polled([NoEvent EXCEPT !.kind = "quit"], MaxEvents)
    /\ running' = FALSE
    /\ UNCHANGED <<W, H, board, pause, update_rate, last_x, last_y, mouse>>

\* update_rate += 1: at u32::MAX the addition panics where overflow is
\* checked (a debug build) and wraps to 0 where it is not (a release build)
RateRaised ==
    IF update_rate = U32Max
    THEN \/ Panic("overflow") /\ UNCHANGED update_rate
         \/ update_rate' = U32(0) /\ UNCHANGED <<W, H, board>>
    ELSE update_rate' = U32Succ(update_rate) /\ UNCHANGED <<W, H, board>>

\* Event::KeyDown { keycode: Some(code), .. }
KeyDown(code) ==
    /\ Polled(KeyEvent(code), MaxEvents)
    /\ UNCHANGED <<last_x, last_y, mouse>>
    /\ running' = (code # "Q")
    /\ pause' = IF code = "Space" THEN ~pause ELSE pause
    /\ CASE code = "C" -> Cleared /\ UNCHANGED update_rate
         [] code = "R" ->
                /\ \E f \in RandomMethods(W, H) : Randomized(f)
                /\ UNCHANGED update_rate
         [] code \in {"P", "B", "W"} ->
                /\ \E seed \in NoiseSeeds : Noised(seed)
                /\ UNCHANGED update_rate
         [] code = "L" -> GliderStamped /\ UNCHANGED update_rate
         [] code = "G" -> GliderGunStamped /\ UNCHANGED update_rate
         [] code = "Num0" ->
                /\ update_rate' = U32(DEFAULT_VIRT_FPS)
                /\ UNCHANGED <<W, H, board>>
         [] code = "Equals" -> RateRaised
         [] code = "Minus" ->
                /\ update_rate' = IF U32AboveOne(update_rate)
                                  THEN U32Pred(update_rate) ELSE update_rate
                /\ UNCHANGED <<W, H, board>>
         [] OTHER -> UNCHANGED <<W, H, board, update_rate>>

\* Keycode::Equals events over many iterations, handled one by one as in
\* KeyDown until update_rate is u32::MAX, while the loop is paused (so that
\* the iterations between them change nothing but the clock); the last of
\* these iterations reads the clock d nanoseconds later.
EqualsHeld(d) ==
    /\ ~panicked
    /\ running
    /\ events < MaxEvents
    /\ pause
    /\ update_rate # U32Max
    /\ ev' = KeyEvent("Equals")
    /\ before' = [Snapshot EXCEPT !.update_rate = U32Pred(U32Max),
                                  !.current_time = current_time + d]
    /\ update_rate' = U32Max
    /\ current_time' = current_time + d
    /\ polled' = 1
    /\ events' = events + 1
    /\ UNCHANGED <<W, H, board, pause, last_update, last_x, last_y, mouse, running,
                   iters>>

\* Event::MouseButtonDown { x, y, mouse_btn, .. }
MouseButtonDown(x, y, mouse_btn) ==
    /\ Polled(DownEvent(x, y, mouse_btn), MaxMouse)
    /\ last_x' = CellOf(x, tile_width)
    /\ last_y' = CellOf(y, tile_height)
    /\ CellSet(last_x', last_y', mouse_btn = "Left")
    /\ mouse' = [any |-> TRUE, x |-> last_x', y |-> last_y']
    /\ UNCHANGED <<pause, update_rate, running>>

\* Event::MouseMotion { x, y, mousestate, .. }
MouseMotion(x, y, left, right) ==
    LET vx == CellOf(x, tile_width)
        vy == CellOf(y, tile_height)
    IN  /\ Polled(MotionEvent(x, y, left, right), MaxMouse)
        /\ IF left THEN LineDrawn(last_x, last_y, vx, vy, TRUE)
           ELSE IF right THEN LineDrawn(last_x, last_y, vx, vy, FALSE)
           ELSE UNCHANGED <<W, H, board>>
        /\ last_x' = IF panicked' THEN last_x ELSE vx
        /\ last_y' = IF panicked' THEN last_y ELSE vy
        /\ mouse' = [any |-> TRUE, x |-> vx, y |-> vy]
        /\ UNCHANGED <<pause, update_rate, running>>

\* The event queue is empty: the rest of the iteration, and the top of the
\* next one, which reads the clock d nanoseconds later.
Tick(d) ==
    /\ ~panicked
    /\ running
    /\ iters < MaxIters
    /\ ev' = TickEvent(d)
    /\ before' = Snapshot
    /\ polled' = 0
    /\ iters' = iters + 1
    /\ current_time' = current_time + d
    /\ UNCHANGED <<pause, update_rate, last_x, last_y, running, mouse, events>>
    /\ IF ~pause /\ update_rate = U32(0)
       THEN Panic("divide") /\ UNCHANGED last_update
       ELSE IF ShouldUpdate(pause, current_time - last_update,
                            NanosPerUpdate(update_rate))
            THEN Advanced /\ last_update' = current_time
            ELSE UNCHANGED <<W, H, board, last_update>>

(***************************************************************************)
(* Spec: every board of the small dimensions, stepped and edited.          *)
(***************************************************************************)
Dims == {d \in (1..MaxW) \X (1..MaxH) : d[1] * d[2] <= MaxCells}

Xs == 0..(W - 1)

Ys == 0..(H - 1)

\* The board generate makes with closure m, as main's first board.
Started(m) ==
    /\ fields = generate(m, W, H)
    /\ closure = m
    /\ calls = GenerateCalls(W, H)
    /\ stamp = <<>>
    /\ pause = FALSE
    /\ update_rate = U32(DEFAULT_VIRT_FPS)
    /\ last_update = 0
    /\ current_time = 0
    /\ last_x = 0
    /\ last_y = 0
    /\ running = TRUE
    /\ ev = NoEvent
    /\ mouse = [any |-> FALSE, x |-> 0, y |-> 0]
    /\ polled = 0
    /\ events = 0
    /\ iters = 0
    /\ panicked = FALSE
    /\ op = Ctor("random")
    /\ prev = <<>>
    /\ receiver = <<>>
    /\ written = <<>>
    /\ origin = "random"
    /\ gen = 0
    /\ edits = 0
    /\ before = Snapshot

\* let mut board = Board::<WIDTH, HEIGHT>::random()
Init ==
    \E d \in Dims :
        /\ W = d[1]
        /\ H = d[2]
        /\ \E f \in RandomMethods(d[1], d[2]) : Started(f)

Next ==
    \/ Clear
    \/ Step
    \/ \E x \in Xs, y \in Ys, val \in BOOLEAN : Set(x, y, val)

Spec == Init /\ [][Next]_vars

(***************************************************************************)
(* SpecLine: line draws on boards that start all dead or all alive.        *)
(***************************************************************************)
LineDims == {d \in (1..MaxLineW) \X (1..MaxLineH) : d[1] * d[2] <= MaxLineCells}

InitLine ==
    \E d \in LineDims :
        /\ W = d[1]
        /\ H = d[2]
        /\ \E seed \in {"dead", "alive"} : Started(noise(seed, d[1], d[2]))

NextLine ==
    \E x1 \in Xs, y1 \in Ys, x2 \in Xs, y2 \in Ys, val \in BOOLEAN :
        Line(x1, y1, x2, y2, val)

SpecLine == InitLine /\ [][NextLine]_vars

(***************************************************************************)
(* SpecDraw: draw stamps every rectangular grid of up to 2 x 2 characters  *)
(* on the boards SpecLine starts from.                                     *)
(***************************************************************************)
GridRows(n) == [1..n -> {"#", " "}]

DrawGrids ==
    UNION {[1..m -> GridRows(n)] : <<n, m>> \in (1..2) \X (1..2)}

NextDraw ==
    \E x_offset \in Xs, y_offset \in Ys, grid \in DrawGrids :
        Draw(x_offset, y_offset, grid)

SpecDraw == InitLine /\ [][NextDraw]_vars

(***************************************************************************)
(* SpecStamp: a board large enough for the stamped patterns, with every    *)
(* constructor, steps, and edits at sample cells.                          *)
(***************************************************************************)
InitStamp ==
    /\ W = StampW
    /\ H = StampH
    /\ Started(noise("checker", StampW, StampH))

\* the cell edited: the middle of the stamped glider
StampCell == <<StampOffset + 1, StampOffset + 1>>

NextStamp ==
    \/ Clear
    \/ Noise("checker")
    \/ Glider
    \/ GliderGun
    \/ Step
    \/ \E val \in BOOLEAN : Set(StampCell[1], StampCell[2], val)
    \/ Line(StampCell[1], StampCell[2], W - 1, H - 1, TRUE)

SpecStamp == InitStamp /\ [][NextStamp]_vars

(***************************************************************************)
(* SpecKeys: main's loop with key events and ticks.  The keys are a sample *)
(* of the key codes ("A" is a key main does not handle); the clock reads a *)
(* whole default update interval or one nanosecond more per iteration.     *)
(***************************************************************************)
InitMain ==
    /\ W = MainW
    /\ H = MainH
    /\ \E seed \in {"alive", "checker"} : Started(noise(seed, MainW, MainH))

KeyCodes == {"Q", "C", "P", "Space", "Num0", "Equals", "Minus", "A"}

Deltas ==
    {NANOS_PER_SEC \div DEFAULT_VIRT_FPS, NANOS_PER_SEC \div DEFAULT_VIRT_FPS + 1}

NextKeys ==
    \/ Quit
    \/ \E code \in KeyCodes : KeyDown(code)
    \/ \E d \in Deltas : EqualsHeld(d)
    \/ \E d \in Deltas : Tick(d)

SpecKeys == InitMain /\ [][NextKeys]_vars

(***************************************************************************)
(* SpecMouse: main's loop with mouse events at the pixels of the window's  *)
(* corners and at the first pixel past its right and its bottom edge       *)
(* (the pointer leaves the window during a drag).                          *)
(***************************************************************************)
PixelXs == {0, output_size[1] - 1, output_size[1]}

PixelYs == {0, output_size[2] - 1, output_size[2]}

NextMouse ==
    \/ \E x \in PixelXs, y \in PixelYs, mouse_btn \in {"Left", "Right"} :
           MouseButtonDown(x, y, mouse_btn)
    \/ \E x \in PixelXs, y \in PixelYs, left \in BOOLEAN, right \in BOOLEAN :
           MouseMotion(x, y, left, right)

SpecMouse == InitMain /\ [][NextMouse]_vars

(***************************************************************************)
(* Properties.                                                             *)
(***************************************************************************)
Min(a, b) == IF a <= b THEN a ELSE b

Range(seq) == {seq[i] : i \in DOMAIN seq}

Cells == Xs \X Ys

AliveCells(b) == {c \in Cells : At(b, c[1], c[2], W)}

AllDead(b) == \A c \in Cells : ~At(b, c[1], c[2], W)

\* C1: after a step, a cell is alive iff it had 3 alive neighbours on the
\* board before the step, or was alive there with 2 alive neighbours; an
\* alive cell without alive neighbours is dead after the step.
C1_NextFollowsRule ==
    op.tag = "next" =>
        \A c \in Cells :
            LET n == neighbours(prev, c[1], c[2], W, H)
                was == At(prev, c[1], c[2], W)
                is == At(fields, c[1], c[2], W)
            IN  /\ is <=> (n = 3 \/ (was /\ n = 2))
                /\ (was /\ n = 0) => ~is

\* A step in which a cell survived with 2 neighbours, a dead cell was born, an
\* isolated cell died, and a cell that counts as dead on the snapshot would
\* count as alive on the board being built.
C1_Witness ==
    /\ op.tag = "next"
    /\ \E c \in Cells : At(prev, c[1], c[2], W) /\ At(fields, c[1], c[2], W)
                        /\ neighbours(prev, c[1], c[2], W, H) = 2
    /\ \E c \in Cells : ~At(prev, c[1], c[2], W) /\ At(fields, c[1], c[2], W)
    /\ \E c \in Cells : At(prev, c[1], c[2], W) /\ ~At(fields, c[1], c[2], W)
                        /\ neighbours(prev, c[1], c[2], W, H) = 0
    /\ fields # NextInPlace(prev, W, H)

\* C2: the neighbour count of a cell is the number of alive cells other than
\* itself in the window [max(x-1,0), min(x+1,W-1)] x [max(y-1,0), min(y+1,H-1)].
C2_NeighboursClamped ==
    op.tag = "next" =>
        \A c \in Cells :
            neighbours(prev, c[1], c[2], W, H) =
                Cardinality({d \in (Max(c[1] - 1, 0)..Min(c[1] + 1, W - 1))
                                   \X (Max(c[2] - 1, 0)..Min(c[2] + 1, H - 1)) :
                                d # c /\ At(prev, d[1], d[2], W)})

\* A step from a board on which an alive corner cell has an alive cell on the
\* opposite edge (which a wrapping window would count) and is itself not counted.
C2_Witness ==
    /\ op.tag = "next"
    /\ W >= 3
    /\ H >= 3
    /\ At(prev, 0, 0, W)
    /\ At(prev, W - 1, 0, W)
    /\ neighbours(prev, 0, 0, W, H) = 0

\* C3: the backing storage has W * H elements after every operation, every
\* in-range access is valid, a step keeps the dimensions, and no operation
\* with in-range coordinates panics.
C3_StorageSize ==
    /\ ~panicked
    /\ Len(fields) = W * H
    /\ \A c \in Cells : InRange(fields, c[1], c[2], W)
                        /\ (c[2] * W + c[1] + 1) \in DOMAIN fields
    /\ op.tag = "next" => Len(fields) = Len(prev)

\* A line drawn on a stepped glider gun.
C3_Witness ==
    /\ op.tag = "line"
    /\ origin = "glider_gun"
    /\ gen > 0
    /\ Len(written) > 1

\* C4: four steps after glider() the alive cells are those of glider()
\* translated by (+1, +1).
C4_GliderTranslates ==
    (origin = "glider" /\ edits = 0 /\ gen = 4) =>
        AliveCells(fields) = {<<c[1] + 1, c[2] + 1>> : c \in AliveCells(glider(W, H))}

C4_Witness ==
    /\ origin = "glider"
    /\ edits = 0
    /\ gen = 4
    /\ W >= 20
    /\ H >= 20
    /\ Cardinality(AliveCells(fields)) = 5

\* C5: line writes max(|x2 - x1|, |y2 - y1|) + 1 distinct cells, and both
\* endpoints hold val afterwards, also when the endpoints are the same cell.
C5_LineEndpoints ==
    op.tag = "line" =>
        /\ Cardinality(Range(written)) = Max(Abs(op.x2 - op.x1), Abs(op.y2 - op.y1)) + 1
        /\ At(fields, op.x1, op.y1, W) = op.val
        /\ At(fields, op.x2, op.y2, W) = op.val

\* C6: line(0,0,0,0,val) writes the one cell (0,0); line(0,0,3,0,val) writes
\* the cells (0,0), (1,0), (2,0), (3,0); every other cell keeps its value.
C6_LineExamples ==
    /\ (op.tag = "line" /\ <<op.x1, op.y1, op.x2, op.y2>> = <<0, 0, 0, 0>>) =>
           /\ Range(written) = {<<0, 0>>}
           /\ \A c \in Cells :
                  At(fields, c[1], c[2], W) =
                      IF c = <<0, 0>> THEN op.val ELSE At(prev, c[1], c[2], W)
    /\ (op.tag = "line" /\ <<op.x1, op.y1, op.x2, op.y2>> = <<0, 0, 3, 0>>) =>
           /\ Range(written) = {<<0, 0>>, <<1, 0>>, <<2, 0>>, <<3, 0>>}
           /\ \A c \in Cells :
                  At(fields, c[1], c[2], W) =
                      IF c[2] = 0 /\ c[1] \in 0..3 THEN op.val
                      ELSE At(prev, c[1], c[2], W)

\* line(0,0,3,0,true) on a board with a second row that was all dead.
C6_Witness ==
    /\ op.tag = "line"
    /\ <<op.x1, op.y1, op.x2, op.y2>> = <<0, 0, 3, 0>>
    /\ op.val
    /\ H >= 2
    /\ AllDead(prev)
    /\ Cardinality(AliveCells(fields)) = 4

\* C7: clear() is all dead, and so is every board stepped from it.
C7_ClearFixedPoint ==
    (origin = "clear" /\ edits = 0) => (Len(fields) = W * H /\ AllDead(fields))

C7_Witness ==
    /\ origin = "clear"
    /\ edits = 0
    /\ op.tag = "next"
    /\ gen >= 2
    /\ AllDead(prev)
    /\ AllDead(fields)

C9_StampedPatterns ==
    LET Hashes(grid) ==
            {<<10 + c, 10 + r>> : <<c, r>> \in
                {p \in (0..(W - 1)) \X (0..(H - 1)) :
                    /\ p[2] < Len(grid)
                    /\ p[1] < Len(grid[p[2] + 1])
                    /\ grid[p[2] + 1][p[1] + 1] = "#"}}
    IN  /\ op.tag = "glider" => AliveCells(fields) = Hashes(GLIDER_GRID)
        /\ op.tag = "glider_gun" => AliveCells(fields) = Hashes(GLIDER_GUN_GRID)

\* A call of glider_gun(): 36 alive cells, the first and the fifth row among them.
C9_Witness ==
    /\ op.tag = "glider_gun"
    /\ Cardinality(AliveCells(fields)) = 36
    /\ At(fields, 34, 10, W)
    /\ At(fields, 10, 14, W)

\* C10: the count looks at no more than 3 cells for a corner cell, no more
\* than 5 for an edge cell that is not a corner, and at 8 for an interior cell.
C10_CandidateCounts ==
    op.tag = "next" =>
        \A c \in Cells :
            LET examined == Cardinality(Candidates(c[1], c[2], W, H))
                onXEdge == c[1] = 0 \/ c[1] = W - 1
                onYEdge == c[2] = 0 \/ c[2] = H - 1
            IN  /\ (onXEdge /\ onYEdge) => examined <= 3
                /\ (onXEdge # onYEdge) => examined <= 5
                /\ (~onXEdge /\ ~onYEdge) => examined = 8

\* A step on a board that has corner, edge and interior cells.
C10_Witness ==
    /\ op.tag = "next"
    /\ W >= 3
    /\ H >= 3
    /\ Cardinality(Candidates(0, 0, W, H)) = 3
    /\ Cardinality(Candidates(1, 0, W, H)) = 5
    /\ Cardinality(Candidates(1, 1, W, H)) = 8

\* C11: the cells line writes, in the order of its loop (i = 0..=md), form a
\* path without gaps: the first is (x1, y1), the last is (x2, y2), and each
\* differs from the one before by at most 1 in x and at most 1 in y.
C11_LineGapFree ==
    op.tag = "line" =>
        /\ Len(written) >= 1
        /\ written[1] = <<op.x1, op.y1>>
        /\ written[Len(written)] = <<op.x2, op.y2>>
        /\ \A i \in 1..(Len(written) - 1) :
               /\ Abs(written[i + 1][1] - written[i][1]) <= 1
               /\ Abs(written[i + 1][2] - written[i][2]) <= 1

\* C19: every cell line writes lies in the bounding rectangle of its two
\* endpoints, so with endpoints on the board no index is out of range, and
\* every cell outside that rectangle keeps its value.
C19_LineInBoundingBox ==
    op.tag = "line" =>
        LET InBox(c) ==
                /\ Min(op.x1, op.x2) <= c[1] /\ c[1] <= Max(op.x1, op.x2)
                /\ Min(op.y1, op.y2) <= c[2] /\ c[2] <= Max(op.y1, op.y2)
        IN  /\ ~panicked
            /\ \A c \in Range(written) : InBox(c)
            /\ \A c \in Cells :
                   ~InBox(c) => At(fields, c[1], c[2], W) = At(prev, c[1], c[2], W)

\* C13: draw sets every cell under a '#' of the grid alive and leaves every
\* cell under a space at the value it had before the call.
C13_DrawOverlays ==
    (op.tag = "draw" /\ ~panicked) =>
        \A y \in 0..(Len(stamp) - 1) : \A x \in 0..(Len(stamp[y + 1]) - 1) :
            IF stamp[y + 1][x + 1] = "#"
            THEN At(fields, op.x1 + x, op.y1 + y, W)
            ELSE At(fields, op.x1 + x, op.y1 + y, W) = At(prev, op.x1 + x, op.y1 + y, W)

\* C13 (amended): draw sets every cell under a '#' of the grid alive and
\* every cell under a space dead, whatever the cell was before; the cells
\* that are under no character of the grid keep their value.
C13_DrawOverwrites ==
    (op.tag = "draw" /\ ~panicked) =>
        \A c \in Cells :
            LET x == c[1] - op.x1
                y == c[2] - op.y1
            IN  IF 0 <= y /\ y < Len(stamp) /\ 0 <= x /\ x < Len(stamp[y + 1])
                THEN At(fields, c[1], c[2], W) = (stamp[y + 1][x + 1] = "#")
                ELSE At(fields, c[1], c[2], W) = At(prev, c[1], c[2], W)

\* A draw that killed an alive cell under a space, left a cell beside the
\* grid alive, and (on another board) one that made a dead cell alive.
C13_Witness ==
    /\ op.tag = "draw"
    /\ op.x1 = 1
    /\ stamp = << <<"#", " ">> >>
    /\ At(prev, 0, op.y1, W)
    /\ At(prev, 1, op.y1, W)
    /\ At(prev, 2, op.y1, W)
    /\ At(fields, 0, op.y1, W)
    /\ At(fields, 1, op.y1, W)
    /\ ~At(fields, 2, op.y1, W)

\* C14: generate calls method exactly once for every coordinate (x, y) with
\* 0 <= x < W and 0 <= y < H and stores the result of the call at flat index
\* y * W + x: on the board it returns, board[y][x] = method(x, y).
C14_GenerateRowMajor ==
    calls # <<>> =>
        /\ Len(fields) = W * H
        /\ \A c \in Cells :
               /\ Cardinality({i \in DOMAIN calls : calls[i] = c}) = 1
               /\ fields[c[2] * W + c[1] + 1] = closure[c[1], c[2]]
               /\ Index(fields, c[2], W)[c[1] + 1] = closure[c[1], c[2]]
        /\ \A i \in DOMAIN calls : calls[i] \in Cells

\* A step on a board that is not square, whose closure tells the cell
\* (W - 1, 0) from the cell (0, H - 1).
C14_Witness ==
    /\ op.tag = "next"
    /\ W = 3
    /\ H = 2
    /\ closure[W - 1, 0]
    /\ ~closure[0, H - 1]
    /\ At(fields, W - 1, 0, W)
    /\ ~At(fields, 0, H - 1, W)

\* the grid cell main derives from the pixel of the mouse event ev
EventCell == <<CellOf(ev.x, tile_width), CellOf(ev.y, tile_height)>>

\* C12: the grid coordinates main derives from a MouseButtonDown or a
\* MouseMotion event and passes to the point set or to line are within
\* [0, W-1] x [0, H-1]: no sequence of mouse events makes main index the
\* board out of range.
C12_MouseCellsInRange ==
    ev.kind \in {"down", "motion"} =>
        /\ EventCell \in Cells
        /\ (ev.kind = "motion" /\ (ev.left \/ ev.right)) =>
               <<before.last_x, before.last_y>> \in Cells
        /\ ~panicked

\* C15: in an iteration the board advances by at most one generation, and
\* only if pause is false and the time since last_update is strictly more
\* than 1_000_000_000 / update_rate nanoseconds; last_update is then the
\* iteration's current_time; the step is taken on the board as the events
\* polled in the iteration left it.
C15_TickGate ==
    ev.kind = "tick" =>
        IF gen = before.gen
        THEN fields = before.fields
        ELSE /\ gen = before.gen + 1
             /\ fields = next(before.fields, W, H)
             /\ prev = before.fields
             /\ polled = 0
             /\ ~before.pause
             /\ before.current_time - before.last_update
                    > NanosPerUpdate(before.update_rate)
             /\ last_update = before.current_time

\* An iteration that handled an event which changed the board and then
\* advanced it, one nanosecond after the update interval had passed.
C15_Witness ==
    /\ ev.kind = "tick"
    /\ gen = before.gen + 1
    /\ before.polled >= 1
    /\ before.fields # fields
    /\ before.gen = 0
    /\ before.current_time - before.last_update
           = NanosPerUpdate(before.update_rate) + 1

\* C16: when a MouseMotion event with a button held draws a line, the start
\* of the line (last_x, last_y) is the cell of the most recent earlier
\* MouseButtonDown or MouseMotion event; when the handler of a MouseMotion
\* event has returned, (last_x, last_y) is the cell of that event.
C16_DragFromLastCell ==
    ev.kind = "motion" =>
        /\ (ev.left \/ ev.right) =>
               /\ before.mouse.any
               /\ <<before.last_x, before.last_y>> = <<before.mouse.x, before.mouse.y>>
        /\ ~panicked => <<last_x, last_y>> = EventCell

\* C17: after any sequence of key events update_rate is at least 1, and the
\* division 1_000_000_000 / update_rate never divides by zero.
C17_RateAtLeastOne ==
    /\ update_rate # U32(0)
    /\ ~(panicked /\ op.tag = "divide")

\* C18: while pause is set the loop does not replace the board by its next
\* generation: between two Space events the board changes only through a
\* generator key or a mouse edit; a Space event toggles pause once, and no
\* other event or tick changes it.
C18_PauseHoldsBoard ==
    /\ (ev.kind = "tick" /\ before.pause) =>
           /\ fields = before.fields
           /\ gen = before.gen
           /\ last_update = before.last_update
    /\ (before.pause /\ pause /\ fields # before.fields) =>
           \/ ev.kind \in {"down", "motion"}
           \/ ev.kind = "key" /\ ev.code \in {"C", "R", "P", "B", "W", "L", "G"}
    /\ ev.kind # "none" =>
           pause = IF ev.kind = "key" /\ ev.code = "Space"
                   THEN ~before.pause ELSE before.pause

\* A paused iteration in which the update was due and the board stayed (an
\* unpaused loop would have changed it).
C18_Witness ==
    /\ ev.kind = "tick"
    /\ before.pause
    /\ before.current_time - before.last_update > NanosPerUpdate(before.update_rate)
    /\ fields = before.fields
    /\ next(fields, W, H) # fields

====
